---- MODULE Spec2Model ----
(***************************************************************************)
(* A model of the contacts service of src/main.py: five HTTP handlers over *)
(* one table "contacts" of a file-backed SQLite database.                  *)
(*                                                                         *)
(* A handler is a coroutine: it runs without interruption up to each       *)
(* "await" on the storage engine, so every action below is the stretch of  *)
(* a handler between two suspension points.  A SELECT sees the committed   *)
(* table; the flush (UPDATE/DELETE) and the COMMIT of one "await           *)
(* db.commit()" are one step, since SQLite admits one writer at a time.    *)
(*                                                                         *)
(* Responses are serialised from the ORM object by attributes (FastAPI     *)
(* with Pydantic 2 validates a response_model with from_attributes).       *)
(***************************************************************************)
EXTENDS Integers, FiniteSets, Sequences, TLC

(* ------------------------------ bounds --------------------------------- *)

\* number of requests that may be between two suspension points at once
MaxInFlight == 2

\* number of requests received in one run
MaxRequests == 3

\* identifiers used in paths, in bodies and in the rows the database holds
Ids == {"x", "y"}

\* the marker of a field the request body does not carry (pydantic's
\* fields_set does not hold the key)
Unset == "<unset>"

\* scalars().first() found no row (None)
NoRow == [id |-> "<none>"]

(* ---------------------------- data model ------------------------------- *)

\* ContactDB: the four data columns
Fields == {"nombres", "telefono", "email", "direccion"}

\* ContactDB: all columns; Contact: all keys of a request body
Keys == Fields \cup {"id"}

\* the values a column takes in this model (id and nombres vary)
Vals(k) == IF k = "id" THEN Ids
           ELSE IF k = "nombres" THEN {"a", "b"} ELSE {"a"}

\* ContactDB rows: every column holds a string
Rows == {r \in [Keys -> {"a", "b"} \cup Ids] : \A k \in Keys : r[k] \in Vals(k)}

\* Contact request bodies that carry the four required fields, with or
\* without an id.  (A body that carries "id": null is outside the bound.)
FullBodies == {b \in [Keys -> {"a", "b", Unset} \cup Ids] :
                  /\ \A f \in Fields : b[f] \in Vals(f)
                  /\ b.id \in Vals("id") \cup {Unset}}

\* Contact request bodies that carry only the fields of K; the handlers
\* never read the values of such a body
PartialBodies == {[k \in Keys |-> IF k \in K THEN "a" ELSE Unset] :
                     K \in (SUBSET Fields) \ {Fields}}

Bodies == FullBodies \cup PartialBodies

\* Contact: nombres, telefono, email, direccion are required, id is optional
Valid(body) == \A f \in Fields : body[f] # Unset

\* updated_contact.dict(exclude_unset=True): the keys the body carries
SetKeys(body) == {k \in Keys : body[k] # Unset}

\* the primary key: no two rows of a table share an id
UniqueIds(st) == \A r1, r2 \in st : r1.id = r2.id => r1 = r2

\* the tables a database file can hold when the process starts
Tables == {st \in SUBSET Rows : UniqueIds(st)}

(* ------------------------------- state --------------------------------- *)

VARIABLES
    serving,       \* uvicorn.run has started the application
    tableExists,   \* the database file holds the table "contacts"
    store,         \* the rows of the table
    sess,          \* per in-flight request: its session and loaded object
    resp,          \* the response most recently sent
    issued,        \* number of requests received
    created,       \* number of create requests that reached their handler
    emptyStart,    \* the run started from a table with no rows
    deletedOk,     \* the ids for which a delete request returned 200
    overtaken      \* the updates that read a row another update has since written

vars == <<serving, tableExists, store, sess, resp, issued, created, emptyStart,
          deletedOk, overtaken>>

Slots == 1 .. MaxInFlight

Idle == [op |-> "idle", pc |-> "idle", id |-> "<none>", body |-> NoRow, obj |-> NoRow]

Response(op, id, status, detail, rows) ==
    [op |-> op, id |-> id, status |-> status, detail |-> detail, rows |-> rows]

(* ------------------------- storage operations -------------------------- *)

\* Base.metadata.create_all: the table exists afterwards, whether or not it
\* did before.  No handler, startup hook or __main__ calls it.
init_db(exists) == TRUE

\* "async with <session>": sqlalchemy.orm.Session has __enter__/__exit__
\* only; AsyncSession has __aenter__/__aexit__
async_with(cls) == IF cls = "AsyncSession" THEN "entered" ELSE "TypeError"

\* select(ContactDB).filter_by(id=contact_id) ... scalars().first()
select_by_id(st, id) ==
    IF \E r \in st : r.id = id THEN CHOOSE r \in st : r.id = id ELSE NoRow

\* the attributes the setattr loop changed: the unit of work writes a column
\* only when its new value differs from the loaded one
Dirty(obj, body) == {k \in SetKeys(body) : body[k] # obj[k]}

\* db_contact after the setattr loop
Assigned(obj, body) == [k \in Keys |-> IF k \in SetKeys(body) THEN body[k] ELSE obj[k]]

\* a flush that writes the object back when its row is gone (an upsert, as
\* session.merge would do) instead of failing on the unmatched UPDATE
flush_update_upsert(st, obj, body) ==
    LET dirty  == Dirty(obj, body)
        target == select_by_id(st, obj.id)
    IN  IF dirty = {}
        THEN [err |-> "none", store |-> st]
        ELSE IF "id" \in dirty /\ select_by_id(st, body.id) # NoRow
        THEN [err |-> "IntegrityError", store |-> st]
        ELSE [err |-> "none",
              store |-> (st \ {target}) \cup {Assigned(obj, body)}]

\* the flush of "await db.commit()" in update_contact:
\* UPDATE contacts SET <dirty columns> WHERE id = <loaded id>
flush_update(st, obj, body) ==
    LET dirty  == Dirty(obj, body)
        target == select_by_id(st, obj.id)
    IN  IF dirty = {}
        THEN [err |-> "none", store |-> st]
        ELSE IF target = NoRow
        THEN [err |-> "StaleDataError", store |-> st]
        ELSE IF "id" \in dirty /\ select_by_id(st, body.id) # NoRow
        THEN [err |-> "IntegrityError", store |-> st]
        ELSE [err |-> "none",
              store |-> (st \ {target}) \cup
                  {[k \in Keys |-> IF k \in dirty THEN body[k] ELSE target[k]]}]

\* the flush of "await db.commit()" in delete_contact:
\* DELETE FROM contacts WHERE id = <loaded id>; no matched row is a warning
flush_delete(st, obj) == {r \in st : r.id # obj.id}

(* ------------------------------ actions -------------------------------- *)

Init ==
    /\ serving = FALSE
    /\ tableExists \in BOOLEAN
    /\ store \in (IF tableExists THEN Tables ELSE {{}})
    /\ sess = [s \in Slots |-> Idle]
    /\ resp = Response("none", "<none>", 0, "", {})
    /\ issued = 0
    /\ created = 0
    /\ emptyStart = (store = {})
    /\ deletedOk = {}
    /\ overtaken = {}

\* __main__: uvicorn.run(app); nothing calls init_db
Startup ==
    /\ ~serving
    /\ serving' = TRUE
    /\ UNCHANGED <<issued, tableExists, store, sess, resp, created, emptyStart, deletedOk, overtaken>>

\* FastAPI validates the body against Contact before it calls the handler
RequestRejected(op, id, body) ==
    /\ serving
    /\ issued < MaxRequests
    /\ issued' = issued + 1
    /\ ~Valid(body)
    /\ resp' = Response(op, id, 422, "field required", {})
    /\ UNCHANGED <<serving, tableExists, store, sess, created, emptyStart, deletedOk, overtaken>>

\* POST /contacts/: "async with Session(engine)" raises before the body of
\* the block runs, so no id is generated and nothing is added or committed;
\* the exception leaves the handler and the client receives 500
create_contact(body) ==
    /\ serving
    /\ issued < MaxRequests
    /\ issued' = issued + 1
    /\ Valid(body)
    /\ created' = created + 1
    /\ async_with("Session") = "TypeError"
    /\ resp' = Response("create", "<none>", 500, "TypeError", {})
    /\ UNCHANGED <<serving, tableExists, store, sess, emptyStart, deletedOk, overtaken>>

\* GET /contacts/
get_contacts ==
    /\ serving
    /\ issued < MaxRequests
    /\ issued' = issued + 1
    /\ async_with("AsyncSession") = "entered"
    /\ resp' = IF tableExists
               THEN Response("list", "<none>", 200, "", store)
               ELSE Response("list", "<none>", 500, "OperationalError", {})
    /\ UNCHANGED <<serving, tableExists, store, sess, created, emptyStart, deletedOk, overtaken>>

\* the response of GET /contacts/{contact_id} against a database
get_contact_response(exists, st, id) ==
    IF ~exists THEN Response("get", id, 500, "OperationalError", {})
    ELSE IF select_by_id(st, id) = NoRow
    THEN Response("get", id, 404, "Contact not found", {})
    ELSE Response("get", id, 200, "", {select_by_id(st, id)})

\* GET /contacts/{contact_id}
get_contact(id) ==
    /\ serving
    /\ issued < MaxRequests
    /\ issued' = issued + 1
    /\ async_with("AsyncSession") = "entered"
    /\ resp' = get_contact_response(tableExists, store, id)
    /\ UNCHANGED <<serving, tableExists, store, sess, created, emptyStart, deletedOk, overtaken>>

\* PUT /contacts/{contact_id}: from the call to "await db.commit()"
update_contact(s, id, body) ==
    /\ serving
    /\ issued < MaxRequests
    /\ issued' = issued + 1
    /\ sess[s] = Idle
    /\ Valid(body)
    /\ async_with("AsyncSession") = "entered"
    /\ LET obj == select_by_id(store, id)
       IN  IF ~tableExists
           THEN /\ resp' = Response("update", id, 500, "OperationalError", {})
                /\ sess' = sess
           ELSE IF obj = NoRow
           THEN /\ resp' = Response("update", id, 404, "Contact not found", {})
                /\ sess' = sess
           ELSE /\ sess' = [sess EXCEPT ![s] =
                      [op |-> "update", pc |-> "loaded", id |-> id, body |-> body, obj |-> obj]]
                /\ resp' = resp
    /\ UNCHANGED <<serving, tableExists, store, created, emptyStart, deletedOk, overtaken>>

\* the other updates that hold the row of session s as they read it
Readers(s) ==
    {q \in Slots \ {s} : /\ sess[q].op = "update"
                          /\ sess[q].pc = "loaded"
                          /\ sess[q].obj.id = sess[s].obj.id}

\* PUT /contacts/{contact_id}: "await db.commit()"
update_commit(s) ==
    /\ sess[s].op = "update"
    /\ sess[s].pc = "loaded"
    /\ LET out == flush_update(store, sess[s].obj, sess[s].body)
       IN  IF out.err # "none"
           THEN /\ resp' = Response("update", sess[s].id, 500, out.err, {})
                /\ sess' = [sess EXCEPT ![s] = Idle]
                /\ store' = store
                /\ overtaken' = overtaken \ {s}
           ELSE /\ store' = out.store
                /\ sess' = [sess EXCEPT ![s] =
                      [op |-> "update", pc |-> "committed", id |-> sess[s].id,
                       body |-> NoRow, obj |-> Assigned(sess[s].obj, sess[s].body)]]
                /\ resp' = resp
                /\ overtaken' = (overtaken \ {s}) \cup Readers(s)
    /\ UNCHANGED <<issued, serving, tableExists, created, emptyStart, deletedOk>>

\* PUT /contacts/{contact_id}: "await db.refresh(db_contact)" and the return
update_refresh(s) ==
    /\ sess[s].op = "update"
    /\ sess[s].pc = "committed"
    /\ LET row == select_by_id(store, sess[s].obj.id)
       IN  resp' = IF row = NoRow
                   THEN Response("update", sess[s].id, 500, "InvalidRequestError", {})
                   ELSE Response("update", sess[s].id, 200, "", {row})
    /\ sess' = [sess EXCEPT ![s] = Idle]
    /\ UNCHANGED <<issued, serving, tableExists, store, created, emptyStart, deletedOk, overtaken>>

\* DELETE /contacts/{contact_id}: from the call to "await db.commit()"
delete_contact(s, id) ==
    /\ serving
    /\ issued < MaxRequests
    /\ issued' = issued + 1
    /\ sess[s] = Idle
    /\ async_with("AsyncSession") = "entered"
    /\ LET obj == select_by_id(store, id)
       IN  IF ~tableExists
           THEN /\ resp' = Response("delete", id, 500, "OperationalError", {})
                /\ sess' = sess
           ELSE IF obj = NoRow
           THEN /\ resp' = Response("delete", id, 404, "Contact not found", {})
                /\ sess' = sess
           ELSE /\ sess' = [sess EXCEPT ![s] =
                      [op |-> "delete", pc |-> "loaded", id |-> id, body |-> NoRow, obj |-> obj]]
                /\ resp' = resp
    /\ UNCHANGED <<serving, tableExists, store, created, emptyStart, deletedOk, overtaken>>

\* DELETE /contacts/{contact_id}: "await db.commit()" and the return
delete_commit(s) ==
    /\ sess[s].op = "delete"
    /\ sess[s].pc = "loaded"
    /\ store' = flush_delete(store, sess[s].obj)
    /\ resp' = Response("delete", sess[s].id, 200, "Contact deleted successfully", {})
    /\ deletedOk' = deletedOk \cup {sess[s].id}
    /\ sess' = [sess EXCEPT ![s] = Idle]
    /\ UNCHANGED <<issued, serving, tableExists, created, emptyStart, overtaken>>

Next ==
    \/ Startup
    \/ \E body \in Bodies : RequestRejected("create", "<none>", body)
    \/ \E id \in Ids, body \in Bodies : RequestRejected("update", id, body)
    \/ \E body \in Bodies : create_contact(body)
    \/ get_contacts
    \/ \E id \in Ids : get_contact(id)
    \/ \E s \in Slots, id \in Ids, body \in Bodies : update_contact(s, id, body)
    \/ \E s \in Slots : update_commit(s)
    \/ \E s \in Slots : update_refresh(s)
    \/ \E s \in Slots, id \in Ids : delete_contact(s, id)
    \/ \E s \in Slots : delete_commit(s)

Spec == Init /\ [][Next]_vars

\* The handlers that open a read-then-write session, alone.  The handlers
\* left out (create, list, get, and the rejection of a body) write neither
\* the table nor a session, so the table and the sessions take the same
\* values under either specification.
NextRace ==
    \/ Startup
    \/ \E s \in Slots, id \in Ids, body \in Bodies : update_contact(s, id, body)
    \/ \E s \in Slots : update_commit(s)
    \/ \E s \in Slots : update_refresh(s)
    \/ \E s \in Slots, id \in Ids : delete_contact(s, id)
    \/ \E s \in Slots : delete_commit(s)

SpecRace == Init /\ [][NextRace]_vars

(* ------------------------------- claims -------------------------------- *)

\* the row stored under an id, read as the handlers read it
Stored(id) == select_by_id(store, id)

\* C1: every create request whose body carries the four required fields
\* completes with status 200 and returns a record with a non-empty id that
\* no stored record has; the store gains exactly that one record.
C1_CreateSucceeds ==
    [][\A body \in Bodies :
          create_contact(body) =>
              /\ resp'.status = 200
              /\ \E r \in resp'.rows :
                    /\ r.id # ""
                    /\ Stored(r.id) = NoRow
                    /\ store' = store \cup {r}]_vars

\* C2: an update request for an existing id whose body carries a non-empty
\* subset of the four fields is accepted, and its commit overwrites the
\* fields the body carries and keeps the others.
C2_PartialUpdate ==
    [][\A id \in Ids, body \in Bodies :
          (/\ SetKeys(body) # {}
           /\ SetKeys(body) \subseteq Fields
           /\ tableExists
           /\ Stored(id) # NoRow)
          => /\ ~RequestRejected("update", id, body)
             /\ \A s \in Slots :
                   (/\ update_commit(s)
                    /\ sess[s].id = id
                    /\ sess[s].body = body
                    /\ sess[s].obj = Stored(id))
                   => select_by_id(store', id) = Assigned(sess[s].obj, body)]_vars

\* C3: no update request changes the id a record is stored under, nor
\* returns a record whose id differs from the path id.
C3_IdImmutable ==
    [][\A s \in Slots :
          /\ update_commit(s) => \A r \in store : select_by_id(store', r.id) # NoRow
          /\ update_refresh(s) => \A r \in resp'.rows : r.id = sess[s].id]_vars

\* C4: the contacts table exists whenever a request handler has performed a
\* storage operation (it was created at startup if absent).
C4_TableBeforeHandlers ==
    /\ (resp.op \in {"list", "get", "delete"} => tableExists)
    /\ (resp.op = "update" /\ resp.status # 422 => tableExists)

\* C5: right after a create, a get-by-id with the id the create returned
\* returns 200 and the record with that id and the four submitted fields.
C5_GetAfterCreate ==
    [][\A body \in Bodies :
          create_contact(body) =>
              \E r \in resp'.rows :
                  /\ \A f \in Fields : r[f] = body[f]
                  /\ get_contact_response(tableExists', store', r.id)
                         = Response("get", r.id, 200, "", {r})]_vars

\* C6: get, update (with any body) and delete of an id that is not in the
\* store each return 404.
C6_NotFound ==
    [][\A id \in Ids :
          Stored(id) = NoRow =>
              /\ get_contact(id) => resp'.status = 404
              /\ \A s \in Slots : delete_contact(s, id) => resp'.status = 404
              /\ \A body \in Bodies :
                    /\ RequestRejected("update", id, body) => resp'.status = 404
                    /\ \A s \in Slots :
                          update_contact(s, id, body) => resp'.status = 404]_vars

\* C7: once a delete of an id has returned 200, every get of that id returns
\* 404 and no list result holds a record with that id.
C7_DeletedStaysGone ==
    [][\A id \in deletedOk :
          /\ get_contact(id) => resp'.status = 404
          /\ get_contacts => \A r \in resp'.rows : r.id # id]_vars

\* C8: from an empty table, with no delete, the list request returns as many
\* records as there were create requests.
C8_ListAfterCreates ==
    [][(/\ get_contacts
        /\ tableExists
        /\ emptyStart
        /\ deletedOk = {}
        /\ \A s \in Slots : sess[s].op # "delete")
       => /\ resp'.status = 200
          /\ Cardinality(resp'.rows) = created]_vars

\* C9: when an update commits after another update that overlapped it (both
\* read the row before either committed), its commit succeeds and the row
\* then holds, in every field, the value this last update supplied.
C9_LastWriteWins ==
    [][\A s \in overtaken :
          update_commit(s) =>
              /\ sess'[s].pc = "committed"
              /\ select_by_id(store', sess[s].id) # NoRow
              /\ \A f \in Fields :
                    select_by_id(store', sess[s].id)[f] = sess[s].body[f]]_vars

\* C10: an update that read a record never brings it back: when the row it
\* read is gone from the table (a delete of the id committed first), the
\* steps of the update leave the id absent, whatever the update reports.
C10_NoResurrection ==
    [][\A s \in Slots :
          (/\ update_commit(s) \/ update_refresh(s)
           /\ Stored(sess[s].id) = NoRow)
          => select_by_id(store', sess[s].id) = NoRow]_vars

\* C10 witness: an update that read id then lost the race against a delete
\* of id has reported its failure, and id is absent.
C10_Witness ==
    /\ resp.op = "update"
    /\ resp.status = 500
    /\ resp.detail = "StaleDataError"
    /\ resp.id \in deletedOk
    /\ Stored(resp.id) = NoRow

====
